---- MODULE Spec2Model ----
(***************************************************************************)
(* Model of the REST gateway of DSA-Lab5 (rest/app.py) in front of the     *)
(* gRPC item service (grpc/server.py).                                     *)
(*                                                                         *)
(* The circuit breaker is pybreaker.CircuitBreaker as app.py configures    *)
(* it (fail_max=3, reset_timeout=30, exclude=[StatusCode members]); its    *)
(* behaviour is that of pybreaker 1.x: CircuitBreaker.call holds the       *)
(* breaker's re-entrant lock for the whole guarded call, a failure         *)
(* increments the counter, a success resets it, the closed state opens     *)
(* once the counter reaches fail_max, the open state rejects until         *)
(* opened_at + reset_timeout and then lets one call through half-open.     *)
(*                                                                         *)
(* Time is in seconds, retry delays in milliseconds.                       *)
(***************************************************************************)
EXTENDS Integers, Sequences, FiniteSets, TLC

(* ------------------------------ bounds --------------------------------- *)
MaxId == 1
MaxItems == 1
MaxTime == 60
TickStep == 30

(* ------------------------- program constants --------------------------- *)
fail_max == 3
reset_timeout == 30
max_retries == 3
initial_delay == 100

(* Two request threads of the gateway's threaded server.                   *)
Threads == {1, 2}
NoThread == 0
None == -1
Names == {"a", "b"}

STATE_CLOSED == "closed"
STATE_OPEN == "open"
STATE_HALF_OPEN == "half-open"

(* gRPC status codes a stub call can end with, "OK" for a normal return;   *)
(* "EXC" stands for an exception that is not a grpc.RpcError.              *)
TransportCodes == {"UNAVAILABLE", "DEADLINE_EXCEEDED"}
ApplicationCodes == {"NOT_FOUND", "ALREADY_EXISTS", "INVALID_ARGUMENT"}
RpcCodes == TransportCodes \cup ApplicationCodes \cup {"INTERNAL"}
Outcomes == {"OK", "EXC"} \cup RpcCodes

VARIABLES
    now,        \* wall clock, seconds
    store,      \* backend collection: set of [id, name] documents
    cb,         \* breaker: [state, counter, opened_at]
    cbLock,     \* holder of breaker._lock, NoThread when free
    pc,         \* per request thread: position
    req,        \* per request thread: [op, id, name, tok]; tok: it carries a valid token
    result,     \* per request thread: [kind, status, code]
    attempt,    \* retry_grpc: loop variable
    delay,      \* retry_grpc: current delay, ms
    sleeps,     \* retry_grpc: delays slept so far
    nCalls,     \* calls of the wrapped/guarded operation made by this request
    script,     \* outcomes of the successive calls of an abstract wrapped f
    last,       \* per request thread: status code of its latest backend call
    caught,     \* per request thread: what its latest stub/breaker call ended with
    streak,     \* consecutive guarded calls failed by transport
    trialCalls, \* backend calls made half-open since the breaker last opened
    channel,    \* app.channel: the channel create_grpc_channel last returned
    stub,       \* app.stub: the channel the current ItemServiceStub is bound to
    monPc,      \* monitor_grpc_connection: position
    probeFails, \* consecutive failed probes of the monitor
    lastProbe,  \* "True" iff the monitor's latest probe RPC ended OK, "" before the first
    usedStub,   \* per request thread: the stub its call in flight goes through
    srv,        \* per backend worker: the AddItem call it is serving
    tokIn,      \* verify_token: the request's token and the key set
    gctx        \* verify_token: [status, msg, user, claims] left on flask.g

vars == <<now, store, cb, cbLock, pc, req, result, attempt, delay,
          sleeps, nCalls, script, last, caught, streak, trialCalls,
          channel, stub, monPc, probeFails, lastProbe, usedStub, srv, tokIn, gctx>>

monVars == <<channel, stub, monPc, probeFails, lastProbe>>
otherVars == <<srv, tokIn, gctx>>

NoReq == [op |-> "none", id |-> 0, name |-> "", tok |-> FALSE]
NoResult == [kind |-> "none", status |-> 0, code |-> ""]
Return(status) == [kind |-> "return", status |-> status, code |-> "OK"]
Value(code) == [kind |-> "return", status |-> 0, code |-> code]
Raise(code) == [kind |-> "raise", status |-> 0, code |-> code]

(* --------------------------- backend (server.py) ----------------------- *)
Ids(s) == {d.id : d \in s}

RECURSIVE MaxOf(_)
MaxOf(S) == IF S = {} THEN 0
            ELSE LET x == CHOOSE y \in S : TRUE
                     m == MaxOf(S \ {x})
                 IN IF x > m THEN x ELSE m

_get_next_id(s) == IF s = {} THEN 1 ELSE MaxOf(Ids(s)) + 1

(* AddItem: [code, store] for a request that reached the servicer.         *)
AddItem(s, id, name, dbError) ==
    IF dbError THEN [code |-> "INTERNAL", store |-> s]
    ELSE IF id > 0 /\ id \in Ids(s)
         THEN [code |-> "ALREADY_EXISTS", store |-> s]
         ELSE LET new_id == IF id > 0 THEN id ELSE _get_next_id(s)
              IN [code |-> "OK", store |-> s \cup {[id |-> new_id, name |-> name]}]

GetItemById(s, id, dbError) ==
    IF dbError THEN "INTERNAL"
    ELSE IF id \in Ids(s) THEN "OK" ELSE "NOT_FOUND"

ListAllItems(s, dbError) == IF dbError THEN "INTERNAL" ELSE "OK"

(* ------------------------ circuit breaker (pybreaker) ------------------ *)
(* is_system_error: an exclusion applies when it is a type the exception   *)
(* is an instance of, or a callable that accepts the exception. app.py     *)
(* lists grpc.StatusCode members, which are neither, so no exclusion       *)
(* matches and every exception counts.                                     *)
ExcludeMatches == {}
is_system_error(code) == code \notin ExcludeMatches

(* Mutant: open() does not record the time of opening.                     *)
cb_open_no_stamp(b, t) == [b EXCEPT !.state = STATE_OPEN]
cb_open(b, t) == [b EXCEPT !.state = STATE_OPEN, !.opened_at = t]
cb_half_open(b) == [b EXCEPT !.state = STATE_HALF_OPEN]
(* Mutant: close() keeps the failure count.                                *)
cb_close_keeps_count(b) == [b EXCEPT !.state = STATE_CLOSED]
cb_close(b) == [b EXCEPT !.state = STATE_CLOSED, !.counter = 0]

(* Mutant: the threshold is compared with > instead of >=.                 *)
ThresholdReached_late(counter) == counter > fail_max
ThresholdReached(counter) == counter >= fail_max

(* CircuitOpenState.before_call: the timeout has not elapsed yet.          *)
StillOpen(b, t) == b.opened_at # None /\ t < b.opened_at + reset_timeout

(* _handle_success: reset the counter, then the state's on_success.        *)
handle_success(b) ==
    IF b.state = STATE_HALF_OPEN THEN cb_close(b)
    ELSE [b EXCEPT !.counter = 0]

(* Mutant: a failure is counted twice.                                     *)
inc_counter_twice(b) == [b EXCEPT !.counter = @ + 2]
(* _inc_counter, under the lock call() holds.                              *)
inc_counter(b) == [b EXCEPT !.counter = @ + 1]

(* _handle_error: [cb, code]: the breaker afterwards and what call raises. *)
handle_error(b, code, t) ==
    IF is_system_error(code)
    THEN LET c == inc_counter(b)
         IN IF c.state = STATE_HALF_OPEN
            THEN [cb |-> cb_open(c, t), code |-> "CircuitBreakerError"]
            ELSE IF ThresholdReached(c.counter)
                 THEN [cb |-> cb_open(c, t), code |-> "CircuitBreakerError"]
                 ELSE [cb |-> c, code |-> code]
    ELSE [cb |-> handle_success(b), code |-> code]

(* Mutant: call() does not wait for the breaker's lock.                    *)
LockFree_unlocked(t) == TRUE
(* The breaker's lock is taken by call() and by close().                   *)
LockFree(t) == cbLock = NoThread

(* ------------------------------ retry_grpc ----------------------------- *)
(* Mutant: the delay is not doubled.                                       *)
NextDelay_constant(d) == d
NextDelay(d) == d * 2
(* Mutant: the last attempt is recognised one pass too late.               *)
IsLastAttempt_off_by_one(a) == a = max_retries
IsLastAttempt(a) == a = max_retries - 1

IsRpcError(code) == code \in RpcCodes

(* The wrapper's handling of one outcome fo of the wrapped f, called from  *)
(* position p: return it, re-raise it, or sleep and call f again.          *)
RetryStep(t, fo, p) ==
    IF fo.kind = "return"
    THEN /\ result' = [result EXCEPT ![t] = fo]
         /\ pc' = [pc EXCEPT ![t] = "done"]
         /\ UNCHANGED <<attempt, delay, sleeps, nCalls>>
    ELSE IF IsRpcError(fo.code)
    THEN IF IsLastAttempt(attempt[t])
         THEN /\ result' = [result EXCEPT ![t] = fo]
              /\ pc' = [pc EXCEPT ![t] = "done"]
              /\ UNCHANGED <<attempt, delay, sleeps, nCalls>>
         ELSE /\ sleeps' = [sleeps EXCEPT ![t] = Append(@, delay[t])]
              /\ delay' = [delay EXCEPT ![t] = NextDelay(@)]
              /\ attempt' = [attempt EXCEPT ![t] = @ + 1]
              /\ IF attempt[t] + 1 < max_retries
                 THEN /\ pc' = [pc EXCEPT ![t] = p]
                      /\ nCalls' = [nCalls EXCEPT ![t] = @ + 1]
                      /\ UNCHANGED result
                 ELSE /\ pc' = [pc EXCEPT ![t] = "done"]
                      /\ result' = [result EXCEPT ![t] = Value("None")]
                      /\ UNCHANGED nCalls
    ELSE /\ result' = [result EXCEPT ![t] = fo]
         /\ pc' = [pc EXCEPT ![t] = "done"]
         /\ UNCHANGED <<attempt, delay, sleeps, nCalls>>

(* --------------------------- channel and stub -------------------------- *)
(* create_grpc_channel: the n-th channel built, with mutual TLS when the   *)
(* three certificate files are there and load, else insecure.              *)
create_grpc_channel(n, certsOK) == [id |-> n, secure |-> certsOK]

(* ItemServiceStub(channel): the stub is known by the channel it wraps.    *)
ItemServiceStub(ch) == ch

NoStub == [id |-> 0 - 1, secure |-> FALSE]

(* A handler names the module global stub when it makes its call.          *)
StubAtCall == stub

(* ------------------------------ handlers ------------------------------- *)
(* create_item: what the try block's outcome becomes.                      *)
create_item_response(code) == IF code = "OK" THEN Return(201) ELSE Return(500)

(* Mutant: create_item calls the breaker again after a failed call.        *)
create_item_next_pc_retrying(code) ==
    IF code \in TransportCodes THEN "ci_lock" ELSE "done"
(* create_item is not wrapped by retry_grpc: after breaker.call it answers. *)
create_item_next_pc(code) == "done"

get_all_items_body(code) == IF code = "OK" THEN Return(200) ELSE Return(500)

get_item_body(code) ==
    IF code = "OK" THEN Return(200)
    ELSE IF code = "NOT_FOUND" THEN Return(404) ELSE Return(500)

TypeOK ==
    /\ now \in 0..MaxTime
    /\ cb.state \in {STATE_CLOSED, STATE_OPEN, STATE_HALF_OPEN}
    /\ cbLock \in Threads \cup {NoThread}
    /\ \A t \in Threads : pc[t] \in {"idle", "ci_lock", "ci_backend", "rd_backend", "hc_backend", "w_call", "done"}

IdleWorker == [pc |-> "idle", id |-> 0, name |-> "", new_id |-> 0, code |-> "",
               present |-> FALSE, raised |-> ""]
NoTokIn == [auth |-> "none", malformed |-> FALSE, hasKid |-> FALSE, kid |-> "",
            keys |-> [loaded |-> FALSE, ids |-> {}], verify |-> "", username |-> FALSE]
NoCtx == [status |-> 0, msg |-> "", user |-> "", claims |-> FALSE]

(* Module import: channel = create_grpc_channel(), stub bound to it; the   *)
(* monitor thread sleeps first.                                            *)
ChannelInit(certsOK) ==
    /\ channel = create_grpc_channel(0, certsOK)
    /\ stub = ItemServiceStub(create_grpc_channel(0, certsOK))
    /\ monPc = "sleep"
    /\ probeFails = 0
    /\ lastProbe = ""
    /\ usedStub = [t \in Threads |-> NoStub]

(* The gateway after import: breaker closed, no request in progress.      *)
GatewayInit ==
    /\ now = 0
    /\ cb = [state |-> STATE_CLOSED, counter |-> 0, opened_at |-> None]
    /\ cbLock = NoThread
    /\ pc = [t \in Threads |-> "idle"]
    /\ req = [t \in Threads |-> NoReq]
    /\ result = [t \in Threads |-> NoResult]
    /\ attempt = [t \in Threads |-> 0]
    /\ delay = [t \in Threads |-> 0]
    /\ sleeps = [t \in Threads |-> <<>>]
    /\ nCalls = [t \in Threads |-> 0]
    /\ script = <<>>
    /\ last = [t \in Threads |-> ""]
    /\ caught = [t \in Threads |-> ""]
    /\ streak = 0
    /\ trialCalls = 0

Init ==
    /\ GatewayInit
    /\ ChannelInit(TRUE)
    /\ store = {}
    /\ srv = [w \in Threads |-> IdleWorker]
    /\ tokIn = NoTokIn
    /\ gctx = NoCtx

(* What the transport does to one stub call: "OK" when the request and   *)
(* its reply get through, else the failure the client sees.                *)
NetOutcomes == {"OK"} \cup TransportCodes

(* POST /items up to breaker.call: token_required, then the input checks,  *)
(* then the arguments of breaker.call, stub.AddItem among them.            *)
CreateItemStart(t) ==
    /\ pc[t] = "idle"
    /\ \E tokOK \in BOOLEAN, shape \in {"ok", "not_json", "no_name"},
          id \in 0..MaxId, name \in Names :
        /\ (id \in Ids(store) \/ Cardinality(store) < MaxItems)
        /\ IF ~tokOK
           THEN /\ req' = [req EXCEPT ![t] = [NoReq EXCEPT !.op = "create_item"]]
                /\ result' = [result EXCEPT ![t] = Return(401)]
                /\ pc' = [pc EXCEPT ![t] = "done"]
                /\ UNCHANGED usedStub
           ELSE IF shape # "ok"
           THEN /\ req' = [req EXCEPT ![t] = [NoReq EXCEPT !.op = "create_item", !.tok = TRUE]]
                /\ result' = [result EXCEPT ![t] = Return(400)]
                /\ pc' = [pc EXCEPT ![t] = "done"]
                /\ UNCHANGED usedStub
           ELSE /\ req' = [req EXCEPT ![t] = [op |-> "create_item", id |-> id, name |-> name, tok |-> TRUE]]
                /\ pc' = [pc EXCEPT ![t] = "ci_lock"]
                /\ usedStub' = [usedStub EXCEPT ![t] = StubAtCall]
                /\ UNCHANGED result
    /\ UNCHANGED <<now, store, cb, cbLock, attempt, delay, sleeps, nCalls,
                   script, last, caught, streak, trialCalls>>
    /\ UNCHANGED <<monVars, otherVars>>

(* breaker.call(stub.AddItem, ...): take the lock, the state's before_call, *)
(* then either the rejection or the start of the call on the backend.      *)
BreakerEnter(t) ==
    /\ pc[t] = "ci_lock"
    /\ LockFree(t)
    /\ IF cb.state = STATE_OPEN /\ StillOpen(cb, now)
       THEN /\ caught' = [caught EXCEPT ![t] = "CircuitBreakerError"]
            /\ result' = [result EXCEPT ![t] = create_item_response("CircuitBreakerError")]
            /\ pc' = [pc EXCEPT ![t] = create_item_next_pc("CircuitBreakerError")]
            /\ usedStub' = [usedStub EXCEPT ![t] = NoStub]
            /\ UNCHANGED <<cb, cbLock, nCalls, trialCalls>>
       ELSE LET b == IF cb.state = STATE_OPEN THEN cb_half_open(cb) ELSE cb
            IN /\ cb' = b
               /\ cbLock' = t
               /\ pc' = [pc EXCEPT ![t] = "ci_backend"]
               /\ nCalls' = [nCalls EXCEPT ![t] = @ + 1]
               /\ trialCalls' = IF b.state = STATE_HALF_OPEN THEN trialCalls + 1 ELSE trialCalls
               /\ UNCHANGED <<caught, result, usedStub>>
    /\ UNCHANGED <<now, store, req, attempt, delay, sleeps, script, last, streak>>
    /\ UNCHANGED <<monVars, otherVars>>

(* The guarded AddItem ends: the breaker records the outcome and releases  *)
(* its lock, create_item maps what breaker.call returned or raised.        *)
BreakerReturn(t) ==
    /\ pc[t] = "ci_backend"
    /\ \E net \in NetOutcomes, dbError \in BOOLEAN :
        LET r == IF net = "OK" THEN AddItem(store, req[t].id, req[t].name, dbError)
                 ELSE [code |-> net, store |-> store]
            h == IF r.code = "OK" THEN [cb |-> handle_success(cb), code |-> "OK"]
                 ELSE handle_error(cb, r.code, now)
        IN /\ store' = r.store
           /\ cb' = h.cb
           /\ last' = [last EXCEPT ![t] = r.code]
           /\ caught' = [caught EXCEPT ![t] = h.code]
           /\ result' = [result EXCEPT ![t] = create_item_response(h.code)]
           /\ pc' = [pc EXCEPT ![t] = create_item_next_pc(h.code)]
           /\ req' = [req EXCEPT ![t] = [NoReq EXCEPT !.op = "create_item", !.tok = TRUE]]
           /\ streak' = IF r.code \in TransportCodes
                        THEN (IF streak < fail_max THEN streak + 1 ELSE streak)
                        ELSE 0
           /\ trialCalls' = IF h.cb.state = STATE_OPEN THEN 0 ELSE trialCalls
    /\ cbLock' = NoThread
    /\ usedStub' = [usedStub EXCEPT ![t] = NoStub]
    /\ UNCHANGED <<now, attempt, delay, sleeps, nCalls, script>>
    /\ UNCHANGED <<monVars, otherVars>>

(* POST /reset-breaker: breaker.close() under the breaker's lock. The      *)
(* route has no token_required decorator: the token is not looked at.      *)
reset_breaker(t) ==
    /\ pc[t] = "idle"
    /\ LockFree(t)
    /\ cb' = cb_close(cb)
    /\ \E tokOK \in BOOLEAN :
          req' = [req EXCEPT ![t] = [NoReq EXCEPT !.op = "reset_breaker", !.tok = tokOK]]
    /\ result' = [result EXCEPT ![t] = Return(200)]
    /\ pc' = [pc EXCEPT ![t] = "done"]
    /\ streak' = 0
    /\ UNCHANGED <<now, store, cbLock, attempt, delay, sleeps, nCalls,
                   script, last, caught, trialCalls>>
    /\ UNCHANGED <<usedStub, monVars, otherVars>>

(* GET /items and GET /items/<id> up to the first stub call: token_required *)
(* (get_all_items only; get_item is decorated with retry_grpc alone), then *)
(* retry_grpc's wrapper calls the handler body.                            *)
ReadStart(t) ==
    /\ pc[t] = "idle"
    /\ \E op \in {"get_all_items", "get_item"}, tokOK \in BOOLEAN, id \in 1..MaxId :
        IF op = "get_all_items" /\ ~tokOK
        THEN /\ req' = [req EXCEPT ![t] = [NoReq EXCEPT !.op = op]]
             /\ result' = [result EXCEPT ![t] = Return(401)]
             /\ pc' = [pc EXCEPT ![t] = "done"]
             /\ UNCHANGED <<attempt, delay, sleeps, nCalls, usedStub>>
        ELSE /\ req' = [req EXCEPT ![t] = [op |-> op, id |-> IF op = "get_item" THEN id ELSE 0,
                                               name |-> "", tok |-> tokOK]]
             /\ attempt' = [attempt EXCEPT ![t] = 0]
             /\ delay' = [delay EXCEPT ![t] = initial_delay]
             /\ sleeps' = [sleeps EXCEPT ![t] = <<>>]
             /\ nCalls' = [nCalls EXCEPT ![t] = 1]
             /\ pc' = [pc EXCEPT ![t] = "rd_backend"]
             /\ usedStub' = [usedStub EXCEPT ![t] = StubAtCall]
             /\ UNCHANGED result
    /\ UNCHANGED <<now, store, cb, cbLock, script, last, caught, streak, trialCalls>>
    /\ UNCHANGED <<monVars, otherVars>>

(* The stub call of a read handler ends: the handler body maps it to a     *)
(* response inside its own try/except and the wrapper sees that outcome.   *)
ReadReturn(t) ==
    /\ pc[t] = "rd_backend"
    /\ \E net \in NetOutcomes, dbError \in BOOLEAN :
        LET code == IF net # "OK" THEN net
                    ELSE IF req[t].op = "get_item" THEN GetItemById(store, req[t].id, dbError)
                    ELSE ListAllItems(store, dbError)
            fo == IF req[t].op = "get_item" THEN get_item_body(code)
                  ELSE get_all_items_body(code)
        IN /\ last' = [last EXCEPT ![t] = code]
           /\ caught' = [caught EXCEPT ![t] = code]
           /\ RetryStep(t, fo, "rd_backend")
           /\ usedStub' = [usedStub EXCEPT ![t] =
                              IF pc'[t] = "rd_backend" THEN StubAtCall ELSE NoStub]
    /\ UNCHANGED <<now, store, cb, cbLock, req, script, streak, trialCalls>>
    /\ UNCHANGED <<monVars, otherVars>>

(* The response is sent and the worker thread is free again.               *)
Respond(t) ==
    /\ pc[t] = "done"
    /\ pc' = [pc EXCEPT ![t] = "idle"]
    /\ req' = [req EXCEPT ![t] = NoReq]
    /\ result' = [result EXCEPT ![t] = NoResult]
    /\ attempt' = [attempt EXCEPT ![t] = 0]
    /\ delay' = [delay EXCEPT ![t] = 0]
    /\ sleeps' = [sleeps EXCEPT ![t] = <<>>]
    /\ nCalls' = [nCalls EXCEPT ![t] = 0]
    /\ last' = [last EXCEPT ![t] = ""]
    /\ caught' = [caught EXCEPT ![t] = ""]
    /\ UNCHANGED <<now, store, cb, cbLock, script, streak, trialCalls>>
    /\ UNCHANGED <<usedStub, monVars, otherVars>>

(* ------------------------------ environment ---------------------------- *)
Tick ==
    /\ now + TickStep <= MaxTime
    /\ now' = now + TickStep
    /\ UNCHANGED <<store, cb, cbLock, pc, req, result, attempt, delay, sleeps,
                   nCalls, script, last, caught, streak, trialCalls>>
    /\ UNCHANGED <<usedStub, monVars, otherVars>>

Next ==
    \/ \E t \in Threads : CreateItemStart(t)
    \/ \E t \in Threads : BreakerEnter(t)
    \/ \E t \in Threads : BreakerReturn(t)
    \/ \E t \in Threads : reset_breaker(t)
    \/ \E t \in Threads : ReadStart(t)
    \/ \E t \in Threads : ReadReturn(t)
    \/ \E t \in Threads : Respond(t)
    \/ Tick

Spec == Init /\ [][Next]_vars

(* ------------- retry_grpc around an arbitrary wrapped callable --------- *)
ScriptLen == 4

(* What the i-th call of the wrapped f ends with.                          *)
ScriptOutcome(i) ==
    LET o == IF i <= Len(script) THEN script[i] ELSE "OK"
    IN IF o = "OK" THEN Value("OK") ELSE Raise(o)

RetryInit ==
    /\ script \in [1..ScriptLen -> Outcomes]
    /\ ChannelInit(TRUE)
    /\ srv = [w \in Threads |-> IdleWorker]
    /\ tokIn = NoTokIn
    /\ gctx = NoCtx
    /\ now = 0
    /\ store = {}
    /\ cb = [state |-> STATE_CLOSED, counter |-> 0, opened_at |-> None]
    /\ cbLock = NoThread
    /\ pc = [t \in Threads |-> "idle"]
    /\ req = [t \in Threads |-> NoReq]
    /\ result = [t \in Threads |-> NoResult]
    /\ attempt = [t \in Threads |-> 0]
    /\ delay = [t \in Threads |-> 0]
    /\ sleeps = [t \in Threads |-> <<>>]
    /\ nCalls = [t \in Threads |-> 0]
    /\ last = [t \in Threads |-> ""]
    /\ caught = [t \in Threads |-> ""]
    /\ streak = 0
    /\ trialCalls = 0

(* wrapper: delay = initial_delay, the first pass of the loop calls f.     *)
WrappedStart(t) ==
    /\ pc[t] = "idle"
    /\ req' = [req EXCEPT ![t] = [NoReq EXCEPT !.op = "wrapped"]]
    /\ attempt' = [attempt EXCEPT ![t] = 0]
    /\ delay' = [delay EXCEPT ![t] = initial_delay]
    /\ sleeps' = [sleeps EXCEPT ![t] = <<>>]
    /\ nCalls' = [nCalls EXCEPT ![t] = 1]
    /\ pc' = [pc EXCEPT ![t] = "w_call"]
    /\ UNCHANGED <<now, store, cb, cbLock, result, script, last, caught,
                   streak, trialCalls>>
    /\ UNCHANGED <<usedStub, monVars, otherVars>>

(* The current call of f ends as the script says.                          *)
WrappedReturn(t) ==
    /\ pc[t] = "w_call"
    /\ LET fo == ScriptOutcome(nCalls[t])
       IN /\ last' = [last EXCEPT ![t] = fo.code]
          /\ caught' = [caught EXCEPT ![t] = fo.code]
          /\ RetryStep(t, fo, "w_call")
    /\ UNCHANGED <<now, store, cb, cbLock, req, script, streak, trialCalls>>
    /\ UNCHANGED <<usedStub, monVars, otherVars>>

RetryNext ==
    \/ WrappedStart(1)
    \/ WrappedReturn(1)

RetrySpec == RetryInit /\ [][RetryNext]_vars

(* ============================== claims ================================= *)
GuardedReturn(t) == pc[t] = "ci_backend" /\ pc'[t] # "ci_backend"
GuardedEnter(t) == pc[t] = "ci_lock" /\ pc'[t] # "ci_lock"
Rejected(t) == /\ pc'[t] = "done"
               /\ caught'[t] = "CircuitBreakerError"
               /\ nCalls'[t] = nCalls[t]
               /\ cb' = cb
IsRead(t) == req[t].op \in {"get_all_items", "get_item"}

(* C1: when a guarded call is the third in a row to fail with a transport  *)
(* failure the breaker is OPEN afterwards, and a guarded call made while   *)
(* the breaker is OPEN and the reset timeout has not elapsed is rejected   *)
(* with a breaker-open error without a call of the backend operation.      *)
C1_OpensAndRejects ==
    [][\A t \in Threads :
        /\ (GuardedReturn(t) /\ last'[t] \in TransportCodes /\ streak' >= fail_max)
              => cb'.state = STATE_OPEN
        /\ (GuardedEnter(t) /\ cb.state = STATE_OPEN /\ now < cb.opened_at + reset_timeout)
              => Rejected(t)]_vars

C1_Witness ==
    \E t \in Threads :
        /\ pc[t] = "done" /\ req[t].op = "create_item"
        /\ caught[t] = "CircuitBreakerError" /\ nCalls[t] = 0
        /\ streak >= fail_max /\ cb.state = STATE_OPEN /\ cb.counter = fail_max

(* C2 (as claimed): a guarded call that the backend answers with not-found, *)
(* invalid-argument or already-exists does not increment the breaker's     *)
(* failure count and leaves a CLOSED breaker CLOSED.                       *)
C2_ApplicationErrorsNotCounted ==
    [][\A t \in Threads :
        (GuardedReturn(t) /\ last'[t] \in ApplicationCodes)
           => /\ cb'.counter <= cb.counter
              /\ (cb.state = STATE_CLOSED => cb'.state = STATE_CLOSED)]_vars

(* C3: at most one call reaches the backend half-open per opening of the   *)
(* breaker, also with other guarded requests waiting; the first guarded    *)
(* call after the timeout is that trial call, and when it succeeds the     *)
(* breaker is CLOSED with failure count 0.                                 *)
C3_OneTrialCall ==
    /\ [](trialCalls <= 1)
    /\ [](cb.state = STATE_HALF_OPEN =>
            /\ trialCalls = 1
            /\ Cardinality({t \in Threads : pc[t] = "ci_backend"}) = 1)
    /\ [][\A t \in Threads :
            /\ (GuardedEnter(t) /\ cb.state = STATE_OPEN /\ now >= cb.opened_at + reset_timeout)
                  => /\ pc'[t] = "ci_backend" /\ cb'.state = STATE_HALF_OPEN
                     /\ nCalls'[t] = nCalls[t] + 1 /\ trialCalls' = 1
            /\ (GuardedReturn(t) /\ cb.state = STATE_HALF_OPEN /\ last'[t] = "OK")
                  => cb'.state = STATE_CLOSED /\ cb'.counter = 0]_vars

C3_Witness ==
    \E t, u \in Threads :
        /\ t # u
        /\ pc[t] = "done" /\ last[t] = "OK" /\ nCalls[t] = 1
        /\ pc[u] = "ci_lock"
        /\ cb.state = STATE_CLOSED /\ cb.counter = 0 /\ trialCalls = 1
        /\ cb.opened_at # None /\ now = cb.opened_at + reset_timeout

(* C4: a failed trial call re-opens the breaker at once, whatever the      *)
(* failure count, and stamps the opening with the time of that failure, so *)
(* that guarded calls are rejected without backend traffic until a full    *)
(* reset timeout after it.                                                 *)
C4_FailedTrialReopens ==
    /\ [](cb.state = STATE_OPEN => cb.opened_at # None /\ cb.opened_at <= now)
    /\ [][\A t \in Threads :
            /\ (GuardedReturn(t) /\ cb.state = STATE_HALF_OPEN /\ last'[t] # "OK")
                  => cb'.state = STATE_OPEN /\ cb'.opened_at = now
            /\ (GuardedEnter(t) /\ cb.state = STATE_OPEN /\ cb.counter > fail_max
                  /\ now < cb.opened_at + reset_timeout)
                  => Rejected(t)]_vars

C4_Witness ==
    \E t \in Threads :
        /\ pc[t] = "done" /\ caught[t] = "CircuitBreakerError" /\ nCalls[t] = 0
        /\ cb.state = STATE_OPEN /\ cb.counter > fail_max
        /\ cb.opened_at >= reset_timeout /\ now < cb.opened_at + reset_timeout

(* C5 (as claimed): no backend call of a read handler starts while the     *)
(* breaker is OPEN and its reset timeout has not elapsed.                  *)
C5_ReadsAreGuarded ==
    [][\A t \in Threads :
        (pc'[t] = "rd_backend" /\ nCalls'[t] > nCalls[t])
           => ~(cb.state = STATE_OPEN /\ StillOpen(cb, now))]_vars

(* C6 (as claimed): a read request answers after a backend attempt failed  *)
(* with a transport failure only once all 3 attempts have been made.       *)
C6_ReadsRetryTransportFailures ==
    \A t \in Threads :
        (pc[t] = "done" /\ IsRead(t) /\ last[t] \in TransportCodes)
           => nCalls[t] = max_retries

(* C7: a wrapped call whose first two attempts fail with a transport error *)
(* and whose third succeeds returns the success result after exactly 3     *)
(* attempts and exactly the delays 100 ms and 200 ms.                      *)
C7_TwoFailuresThenSuccess ==
    (/\ pc[1] = "done"
     /\ script[1] \in TransportCodes /\ script[2] \in TransportCodes /\ script[3] = "OK")
       => /\ result[1] = Value("OK")
          /\ nCalls[1] = 3
          /\ sleeps[1] = <<100, 200>>

C7_Witness ==
    /\ pc[1] = "done" /\ result[1] = Value("OK") /\ nCalls[1] = 3
    /\ script[1] = "UNAVAILABLE" /\ script[2] = "DEADLINE_EXCEEDED" /\ script[3] = "OK"

(* C8 (as claimed): a wrapped call that fails with an application-level    *)
(* status is attempted once and its failure is raised without a delay.     *)
C8_ApplicationErrorsNotRetried ==
    (pc[1] = "done" /\ script[1] \in ApplicationCodes)
       => /\ nCalls[1] = 1
          /\ sleeps[1] = <<>>
          /\ result[1] = Raise(script[1])

(* C9: a wrapped call is attempted at most 3 times with at most 2 delays;  *)
(* when all 3 attempts fail with a transport failure the wrapper ends by   *)
(* raising the third attempt's failure, after 3 attempts and 2 delays.     *)
C9_AtMostThreeAttempts ==
    /\ nCalls[1] <= max_retries
    /\ Len(sleeps[1]) <= max_retries - 1
    /\ (/\ pc[1] # "idle"
        /\ \A i \in 1..max_retries : script[i] \in TransportCodes)
          => /\ pc[1] = "done" => /\ result[1] = Raise(script[max_retries])
                                  /\ nCalls[1] = max_retries
                                  /\ Len(sleeps[1]) = max_retries - 1
             /\ pc[1] = "w_call" => Len(sleeps[1]) = nCalls[1] - 1

C9_Witness ==
    /\ pc[1] = "done" /\ nCalls[1] = 3 /\ Len(sleeps[1]) = 2
    /\ script[1] = "UNAVAILABLE" /\ script[2] = "UNAVAILABLE"
    /\ script[3] = "DEADLINE_EXCEEDED" /\ result[1] = Raise("DEADLINE_EXCEEDED")

(* C10: one POST /items request makes at most one AddItem call, whatever   *)
(* that call ends with.                                                    *)
C10_CreateCalledAtMostOnce ==
    \A t \in Threads : req[t].op = "create_item" => nCalls[t] <= 1

C10_Witness ==
    \E t \in Threads :
        /\ pc[t] = "done" /\ req[t].op = "create_item"
        /\ last[t] \in TransportCodes /\ nCalls[t] = 1

(* C11 (as claimed): a guarded request the OPEN breaker rejects is answered *)
(* 503, without a call of the backend operation.                           *)
C11_BreakerOpenIs503 ==
    \A t \in Threads :
        (/\ pc[t] = "done" /\ req[t].op = "create_item"
         /\ caught[t] = "CircuitBreakerError" /\ nCalls[t] = 0)
           => result[t].status = 503

(* C12 (as claimed): a request to GET /items, POST /items, GET /items/<id>  *)
(* or POST /reset-breaker that carries no valid token makes no backend     *)
(* call and is answered 401.                                               *)
ProtectedOps == {"get_all_items", "create_item", "get_item", "reset_breaker"}

C12_TokenRequired ==
    \A t \in Threads :
        (req[t].op \in ProtectedOps /\ ~req[t].tok)
           => /\ pc[t] = "done"
              /\ result[t].status = 401
              /\ nCalls[t] = 0

(* ------------------- jwt_middleware.verify_token ----------------------- *)
KeyIds == {"k1", "k2"}
(* KEYS: not loaded while fetch_jwks has not stored a key set (None), else *)
(* the key ids it fetched.                                                 *)
KeySets == {[loaded |-> FALSE, ids |-> {}], [loaded |-> TRUE, ids |-> {}],
            [loaded |-> TRUE, ids |-> {"k1"}]}

TokenInputs ==
    [auth : {"none", "basic", "bearer"}, malformed : BOOLEAN, hasKid : BOOLEAN,
     kid : KeyIds, keys : KeySets,
     verify : {"ok", "bad_signature", "expired", "wrong_audience", "wrong_issuer"},
     username : BOOLEAN]

Abort401(msg) == [status |-> 401, msg |-> msg, user |-> "", claims |-> FALSE]

(* Mutant: any key id is taken as known.                                   *)
kid_lookup_any(kid, keys) == "known"
(* `kid not in KEYS`: a TypeError while KEYS is None.                      *)
kid_lookup(kid, keys) ==
    IF ~keys.loaded THEN "TypeError"
    ELSE IF kid \in keys.ids THEN "known" ELSE "unknown"

(* verify_token: what it leaves on g, status 200 when it returns normally. *)
(* An abort inside the try block is an HTTPException, which the generic    *)
(* except clause turns into another 401.                                   *)
verify_token(in) ==
    IF in.auth # "bearer" THEN Abort401("missing Bearer token")
    ELSE IF in.malformed THEN Abort401("invalid token")
    ELSE IF ~in.hasKid THEN Abort401("token validation error")
    ELSE IF kid_lookup(in.kid, in.keys) # "known" THEN Abort401("token validation error")
    ELSE IF in.verify # "ok" THEN Abort401("invalid token")
    ELSE [status |-> 200, msg |-> "",
          user |-> IF in.username THEN "preferred_username" ELSE "sub",
          claims |-> TRUE]

TokenInit ==
    /\ tokIn \in TokenInputs
    /\ gctx = NoCtx
    /\ GatewayInit
    /\ ChannelInit(TRUE)
    /\ store = {}
    /\ srv = [w \in Threads |-> IdleWorker]

(* The validator runs on the request.                                      *)
VerifyToken ==
    /\ gctx = NoCtx
    /\ gctx' = verify_token(tokIn)
    /\ UNCHANGED <<now, store, cb, cbLock, pc, req, result, attempt, delay, sleeps,
                   nCalls, script, last, caught, streak, trialCalls, monVars,
                   usedStub, srv, tokIn>>

TokenNext == VerifyToken

TokenSpec == TokenInit /\ [][TokenNext]_vars

(* C13: a bearer token whose key id does not resolve in the key set, also  *)
(* when the key set was never stored, is answered 401 by the validator and *)
(* neither identity nor claims are attached to the request context.        *)
UnresolvedKid ==
    /\ tokIn.auth = "bearer" /\ ~tokIn.malformed /\ tokIn.hasKid
    /\ (~tokIn.keys.loaded \/ tokIn.kid \notin tokIn.keys.ids)

C13_UnknownKidRejected ==
    (gctx # NoCtx /\ UnresolvedKid)
       => gctx.status = 401 /\ gctx.user = "" /\ ~gctx.claims

C13_Witness ==
    /\ gctx.status = 401 /\ tokIn.auth = "bearer" /\ ~tokIn.malformed /\ tokIn.hasKid
    /\ ~tokIn.keys.loaded /\ tokIn.verify = "ok"

(* ----------------------- /health, /auth, the monitor -------------------- *)
MaxChannels == 3

(* Mutant: the probes go through breaker.call like POST /items.            *)
probe_breaker_guarded(b, code, t) ==
    IF code = "OK" THEN handle_success(b) ELSE handle_error(b, code, t).cb
(* The breaker after a probe that ended with code: both probes call        *)
(* stub.ListAllItems directly, so the breaker does not see them.           *)
probe_breaker(b, code, t) == b

(* GET /health up to its stub call (no token, no breaker, no retry).       *)
HealthStart(t) ==
    /\ pc[t] = "idle"
    /\ req' = [req EXCEPT ![t] = [NoReq EXCEPT !.op = "health_check", !.tok = TRUE]]
    /\ pc' = [pc EXCEPT ![t] = "hc_backend"]
    /\ nCalls' = [nCalls EXCEPT ![t] = 1]
    /\ usedStub' = [usedStub EXCEPT ![t] = StubAtCall]
    /\ UNCHANGED <<now, store, cb, cbLock, result, attempt, delay, sleeps, script,
                   last, caught, streak, trialCalls, monVars, otherVars>>

(* The probe of /health ends; the answer is 200 whatever it ended with.    *)
HealthReturn(t) ==
    /\ pc[t] = "hc_backend"
    /\ \E net \in NetOutcomes, dbError \in BOOLEAN :
        LET code == IF net # "OK" THEN net ELSE ListAllItems(store, dbError)
        IN /\ last' = [last EXCEPT ![t] = code]
           /\ caught' = [caught EXCEPT ![t] = code]
           /\ cb' = probe_breaker(cb, code, now)
    /\ result' = [result EXCEPT ![t] = Return(200)]
    /\ pc' = [pc EXCEPT ![t] = "done"]
    /\ usedStub' = [usedStub EXCEPT ![t] = NoStub]
    /\ UNCHANGED <<now, store, cbLock, req, attempt, delay, sleeps, nCalls, script,
                   streak, trialCalls, monVars, otherVars>>

(* POST /auth: 400 for a body that is not JSON, 500 for a JSON body that   *)
(* is no object, 200 with a token for admin/secret, else 401.              *)
authenticate(t) ==
    /\ pc[t] = "idle"
    /\ \E shape \in {"not_json", "not_object", "ok"}, credsOK \in BOOLEAN :
        result' = [result EXCEPT ![t] =
                     IF shape = "not_json" THEN Return(400)
                     ELSE IF shape = "not_object" THEN Return(500)
                     ELSE IF credsOK THEN Return(200) ELSE Return(401)]
    /\ req' = [req EXCEPT ![t] = [NoReq EXCEPT !.op = "authenticate", !.tok = TRUE]]
    /\ pc' = [pc EXCEPT ![t] = "done"]
    /\ UNCHANGED <<now, store, cb, cbLock, attempt, delay, sleeps, nCalls, script,
                   last, caught, streak, trialCalls, usedStub, monVars, otherVars>>

(* A monitor that takes every probe for a failure.                         *)
ProbeFailed_always(code) == TRUE

(* verify_grpc_connection: any grpc.RpcError of the probe is a failure.    *)
ProbeFailed(code) == code # "OK"

(* A monitor that rebuilds the channel and keeps the stub it had.          *)
monitor_stub_keeps_old(ch, old) == old

(* The stub the monitor installs after it built the channel ch.            *)
monitor_stub(ch, old) == ItemServiceStub(ch)

(* monitor_grpc_connection: sleep(10), then the probe through the current  *)
(* stub. A failure is taken only while a further channel may be built.     *)
monitor_probe ==
    /\ monPc = "sleep"
    /\ \E net \in NetOutcomes, dbError \in BOOLEAN :
        LET code == IF net # "OK" THEN net ELSE ListAllItems(store, dbError)
        IN /\ (code # "OK" => channel.id < MaxChannels)
           /\ lastProbe' = IF code = "OK" THEN "True" ELSE "False"
           /\ cb' = probe_breaker(cb, code, now)
           /\ IF ProbeFailed(code)
              THEN /\ monPc' = "new_channel"
                   /\ probeFails' = probeFails + 1
              ELSE /\ monPc' = "sleep"
                   /\ probeFails' = 0
    /\ UNCHANGED <<now, store, cbLock, pc, req, result, attempt, delay, sleeps,
                   nCalls, script, last, caught, streak, trialCalls, channel, stub,
                   usedStub, otherVars>>

(* channel = create_grpc_channel()                                         *)
monitor_new_channel ==
    /\ monPc = "new_channel"
    /\ \E certsOK \in BOOLEAN :
          channel' = create_grpc_channel(channel.id + 1, certsOK)
    /\ monPc' = "new_stub"
    /\ UNCHANGED <<now, store, cb, cbLock, pc, req, result, attempt, delay, sleeps,
                   nCalls, script, last, caught, streak, trialCalls, stub, probeFails,
                   lastProbe, usedStub, otherVars>>

(* stub = items_pb2_grpc.ItemServiceStub(channel)                          *)
monitor_new_stub ==
    /\ monPc = "new_stub"
    /\ stub' = monitor_stub(channel, stub)
    /\ monPc' = "sleep"
    /\ UNCHANGED <<now, store, cb, cbLock, pc, req, result, attempt, delay, sleeps,
                   nCalls, script, last, caught, streak, trialCalls, channel, probeFails,
                   lastProbe, usedStub, otherVars>>

(* The gateway with its monitor thread and one request thread, within one  *)
(* reset_timeout of its start.                                             *)
MonitorInit ==
    /\ GatewayInit
    /\ \E certsOK \in BOOLEAN : ChannelInit(certsOK)
    /\ store = {}
    /\ srv = [w \in Threads |-> IdleWorker]
    /\ tokIn = NoTokIn
    /\ gctx = NoCtx

MonitorNext ==
    \/ CreateItemStart(1)
    \/ BreakerEnter(1)
    \/ BreakerReturn(1)
    \/ reset_breaker(1)
    \/ ReadStart(1)
    \/ ReadReturn(1)
    \/ HealthStart(1)
    \/ HealthReturn(1)
    \/ authenticate(1)
    \/ Respond(1)
    \/ monitor_probe
    \/ monitor_new_channel
    \/ monitor_new_stub

MonitorSpec == MonitorInit /\ [][MonitorNext]_vars

(* C14 (as claimed): at every moment the shared stub is the one bound to   *)
(* the current shared channel.                                             *)
C14_StubBoundToChannel ==
    /\ channel.id >= 0
    /\ stub # NoStub
    /\ stub = ItemServiceStub(channel)

(* A step in which the monitor's probe failed.                             *)
ProbeFailure == probeFails' = probeFails + 1

(* A step in which request thread t reads the shared stub for a call.      *)
ReadsStub(t) == usedStub'[t] # usedStub[t] /\ usedStub'[t] # NoStub

(* C15: a failed probe is followed, before any further probe, by a new     *)
(* channel from create_grpc_channel and then by a stub bound to it; so     *)
(* between probes the stub is bound to the current channel, after n        *)
(* consecutive failures (three among them) the pair has been built at      *)
(* least n times since startup, and a handler that reads the stub gets the *)
(* one installed last.                                                     *)
C15_RebuildOnProbeFailure ==
    [][/\ ProbeFailure => (monPc = "sleep" /\ monPc' = "new_channel")
       /\ monPc = "new_channel" =>
             /\ probeFails' = probeFails /\ lastProbe' = lastProbe /\ stub' = stub
             /\ \/ monPc' = "new_channel" /\ channel' = channel
                \/ /\ monPc' = "new_stub"
                   /\ \E certsOK \in BOOLEAN :
                         channel' = create_grpc_channel(channel.id + 1, certsOK)
       /\ monPc = "new_stub" =>
             /\ probeFails' = probeFails /\ lastProbe' = lastProbe /\ channel' = channel
             /\ \/ monPc' = "new_stub" /\ stub' = stub
                \/ monPc' = "sleep" /\ stub' = ItemServiceStub(channel)
       /\ monPc' = "sleep" =>
             /\ stub' = ItemServiceStub(channel')
             /\ stub'.id >= probeFails'
             /\ (probeFails' = 3 => stub'.id > 0)
       /\ \A t \in Threads : ReadsStub(t) => usedStub'[t] = stub
      ]_vars

(* Three consecutive probes failed, the third replacement is complete and  *)
(* a handler that started afterwards is calling through the new stub.      *)
C15_Witness ==
    /\ probeFails = 3
    /\ monPc = "sleep"
    /\ channel.id = 3
    /\ stub = ItemServiceStub(channel)
    /\ \E t \in Threads : pc[t] \in {"ci_backend", "rd_backend", "hc_backend"} /\ usedStub[t] = stub

(* A step of a request handler of thread t.                                *)
HandlerStep(t) == pc'[t] # pc[t] \/ req'[t] # req[t] \/ result'[t] # result[t]

(* C19: the shared channel and stub change only in the monitor's two       *)
(* assignments, never in a step of a request handler (items endpoints,     *)
(* /health, /reset-breaker, /auth), and a probe that succeeded is followed *)
(* by no assignment: the monitor goes back to sleep with the pair it had.  *)
C19_MonitorIsOnlyWriter ==
    [][/\ \A t \in Threads : HandlerStep(t) => (channel' = channel /\ stub' = stub)
       /\ channel' # channel => (monPc = "new_channel" /\ monPc' = "new_stub")
       /\ stub' # stub => (monPc = "new_stub" /\ monPc' = "sleep")
       /\ lastProbe' = "True" => (monPc' = "sleep" /\ probeFails' = 0)
       /\ lastProbe = "True" => (channel' = channel /\ stub' = stub)
      ]_vars

(* The monitor rebuilt the pair once, its next probe succeeded, and a     *)
(* GET /health has been answered through the pair.                         *)
C19_Witness ==
    /\ channel.id = 1
    /\ stub = ItemServiceStub(channel)
    /\ lastProbe = "True"
    /\ monPc = "sleep"
    /\ pc[1] = "done"
    /\ req[1].op = "health_check"

(* --------------------- the backend's worker pool (AddItem) -------------- *)
(* Two of the ThreadPoolExecutor's workers serve AddItem calls against the *)
(* one collection; each database operation is one step.                    *)
MaxReqId == 2
MaxStored == 3
Workers == Threads
ReqIds == (0 - 1) .. MaxReqId

(* Mutant: the lookup of AddItem finds nothing.                            *)
item_exists_never(s, id) == FALSE
(* request.id > 0 and collection.find_one({"id": request.id})              *)
item_exists(s, id) == id > 0 /\ id \in Ids(s)

(* Mutant: a collection without the unique index on id.                    *)
duplicate_key_no_index(s, id) == FALSE
(* insert_one against the unique index on id: DuplicateKeyError.           *)
duplicate_key(s, id) == id \in Ids(s)

InFlight == Cardinality({w \in Workers : srv[w].pc # "idle"})

(* A worker takes an AddItem request; collection is not None. The field    *)
(* present records whether the requested id was stored at that moment.     *)
AddItemStart(w) ==
    /\ srv[w].pc = "idle"
    /\ \E id \in ReqIds, name \in Names :
        /\ id \in Ids(store) \/ Cardinality(store) + InFlight < MaxStored
        /\ srv' = [srv EXCEPT ![w] = [IdleWorker EXCEPT !.pc = "read", !.id = id,
                                        !.name = name, !.present = id \in Ids(store)]]
    /\ UNCHANGED <<now, store, cb, cbLock, pc, req, result, attempt, delay, sleeps,
                   nCalls, script, last, caught, streak, trialCalls, usedStub,
                   monVars, tokIn, gctx>>

(* The database read of AddItem: find_one by id for a positive id, else    *)
(* _get_next_id; either may raise PyMongoError.                            *)
AddItemRead(w) ==
    /\ srv[w].pc = "read"
    /\ \E dbError \in BOOLEAN :
        srv' = [srv EXCEPT ![w] =
            IF dbError
            THEN [@ EXCEPT !.pc = "done", !.code = "INTERNAL", !.raised = "PyMongoError"]
            ELSE IF item_exists(store, @.id)
            THEN [@ EXCEPT !.pc = "done", !.code = "ALREADY_EXISTS"]
            ELSE [@ EXCEPT !.pc = "insert",
                           !.new_id = IF srv[w].id > 0 THEN srv[w].id
                                      ELSE _get_next_id(store)]]
    /\ UNCHANGED <<now, store, cb, cbLock, pc, req, result, attempt, delay, sleeps,
                   nCalls, script, last, caught, streak, trialCalls, usedStub,
                   monVars, tokIn, gctx>>

(* collection.insert_one({"id": new_id, "name": request.name})             *)
AddItemInsert(w) ==
    /\ srv[w].pc = "insert"
    /\ \E dbError \in BOOLEAN :
        IF dbError
        THEN /\ srv' = [srv EXCEPT ![w] = [@ EXCEPT !.pc = "done", !.code = "INTERNAL",
                                                     !.raised = "PyMongoError"]]
             /\ store' = store
        ELSE IF duplicate_key(store, srv[w].new_id)
        THEN /\ srv' = [srv EXCEPT ![w] = [@ EXCEPT !.pc = "done", !.code = "INTERNAL",
                                                     !.raised = "DuplicateKeyError"]]
             /\ store' = store
        ELSE /\ srv' = [srv EXCEPT ![w] = [@ EXCEPT !.pc = "done", !.code = "OK"]]
             /\ store' = store \cup {[id |-> srv[w].new_id, name |-> srv[w].name]}
    /\ UNCHANGED <<now, cb, cbLock, pc, req, result, attempt, delay, sleeps,
                   nCalls, script, last, caught, streak, trialCalls, usedStub,
                   monVars, tokIn, gctx>>

(* The response has left; the worker is free again.                        *)
AddItemReturn(w) ==
    /\ srv[w].pc = "done"
    /\ srv' = [srv EXCEPT ![w] = IdleWorker]
    /\ UNCHANGED <<now, store, cb, cbLock, pc, req, result, attempt, delay, sleeps,
                   nCalls, script, last, caught, streak, trialCalls, usedStub,
                   monVars, tokIn, gctx>>

BackendInit ==
    /\ GatewayInit
    /\ ChannelInit(TRUE)
    /\ store = {}
    /\ srv = [w \in Workers |-> IdleWorker]
    /\ tokIn = NoTokIn
    /\ gctx = NoCtx

BackendNext ==
    \E w \in Workers :
        \/ AddItemStart(w)
        \/ AddItemRead(w)
        \/ AddItemInsert(w)
        \/ AddItemReturn(w)

BackendSpec == BackendInit /\ [][BackendNext]_vars

(* C16: an AddItem call with a positive id that was stored when the call   *)
(* arrived never inserts and never changes the store, and unless the       *)
(* database raised on its lookup it ends with ALREADY_EXISTS.              *)
C16_ExistingIdRejected ==
    [][\A w \in Workers :
          (srv[w].pc # "idle" /\ srv[w].id > 0 /\ srv[w].present) =>
              /\ srv'[w] # srv[w] => store' = store
              /\ srv'[w].pc # "insert"
              /\ srv'[w].raised # "DuplicateKeyError"
              /\ (srv'[w].pc = "done" /\ srv'[w].raised = "")
                     => srv'[w].code = "ALREADY_EXISTS"
      ]_vars

(* A call for a stored id was answered ALREADY_EXISTS and the item kept    *)
(* the name it had, which is not the name of the request.                  *)
C16_Witness ==
    \E w \in Workers :
        /\ srv[w].pc = "done"
        /\ srv[w].id > 0
        /\ srv[w].present
        /\ srv[w].code = "ALREADY_EXISTS"
        /\ \E d \in store : d.id = srv[w].id /\ d.name # srv[w].name

(* C17 (as claimed): every AddItem call without a positive id that the     *)
(* database did not fail has stored an item under the id it computed, the  *)
(* highest stored id + 1 (1 for an empty store), and returns it.           *)
C17_NextIdAssigned ==
    \A w \in Workers :
        (srv[w].pc = "done" /\ srv[w].id <= 0 /\ srv[w].raised # "PyMongoError")
            => /\ srv[w].code = "OK"
               /\ srv[w].new_id >= 1
               /\ [id |-> srv[w].new_id, name |-> srv[w].name] \in store

(* C20: every stored item has a positive id and no two stored items share  *)
(* an id, in every state of every interleaving of AddItem calls.           *)
C20_IdsPositiveAndUnique ==
    /\ \A d \in store : d.id > 0
    /\ \A d, e \in store : d.id = e.id => d = e

(* Two calls raced for one id: one stored its item, the other was stopped  *)
(* by the unique index.                                                    *)
C20_Witness ==
    /\ Cardinality(store) >= 2
    /\ \E w \in Workers : srv[w].pc = "done" /\ srv[w].raised = "DuplicateKeyError"
    /\ \E w \in Workers : srv[w].pc = "done" /\ srv[w].code = "OK" /\ srv[w].id <= 0

(* C18: with guarded calls of several threads in flight, at most one is    *)
(* inside the breaker at a time; each call that fails while the breaker is *)
(* CLOSED raises the failure count by exactly one, and no step raises it   *)
(* by more; a CLOSED breaker's count is below fail_max; the breaker goes   *)
(* from CLOSED to OPEN in the one step that takes the count from           *)
(* fail_max - 1 to fail_max, stamped with the time of that step, and an    *)
(* OPEN breaker is never opened or stamped again.                          *)
C18_BreakerUpdatesAtomic ==
    /\ [](Cardinality({t \in Threads : pc[t] = "ci_backend"}) <= 1)
    /\ [](cb.state = STATE_CLOSED => cb.counter < fail_max)
    /\ [][/\ \A t \in Threads :
               (GuardedReturn(t) /\ last'[t] # "OK" /\ cb.state = STATE_CLOSED)
                  => /\ cb'.counter = cb.counter + 1
                     /\ (cb'.state = STATE_OPEN) = (cb'.counter = fail_max)
                     /\ cb'.state \in {STATE_OPEN, STATE_CLOSED}
          /\ cb'.counter > cb.counter =>
                /\ cb'.counter = cb.counter + 1
                /\ Cardinality({t \in Threads : GuardedReturn(t)}) = 1
          /\ (cb.state = STATE_CLOSED /\ cb'.state = STATE_OPEN) =>
                /\ cb.counter = fail_max - 1
                /\ cb'.counter = fail_max
                /\ cb'.opened_at = now
          /\ (cb.state = STATE_OPEN /\ cb'.state = STATE_OPEN) =>
                cb'.opened_at = cb.opened_at
         ]_vars

(* One thread's call was the third failure and opened the breaker while    *)
(* another thread's call was waiting for the breaker.                      *)
C18_Witness ==
    \E t, u \in Threads :
        /\ t # u
        /\ pc[t] = "done" /\ req[t].op = "create_item"
        /\ caught[t] = "CircuitBreakerError" /\ nCalls[t] = 1
        /\ pc[u] = "ci_lock"
        /\ cb.state = STATE_OPEN /\ cb.counter = fail_max /\ cb.opened_at = now

(* A step in which the monitor's probe ended, with either result.          *)
MonitorProbeStep == lastProbe' # lastProbe \/ probeFails' # probeFails

(* A step of GET /health of thread t: its probe starts or ends.            *)
HealthProbeStep(t) == pc[t] = "hc_backend" \/ pc'[t] = "hc_backend"

(* C21: no probe of the monitor and no step of GET /health, with the probe *)
(* succeeding or failing, changes the breaker's state, failure count or    *)
(* opening time or takes its lock; so failed probes, however many, leave a *)
(* CLOSED breaker CLOSED with the count it had.                            *)
C21_ProbesBypassBreaker ==
    [][/\ MonitorProbeStep => (cb' = cb /\ cbLock' = cbLock /\ streak' = streak)
       /\ \A t \in Threads :
             HealthProbeStep(t) => (cb' = cb /\ cbLock' = cbLock /\ streak' = streak)
      ]_vars

(* Two guarded calls have failed, so one more counted failure would open   *)
(* the breaker; then three monitor probes in a row and the probe of a      *)
(* GET /health failed, and the breaker is CLOSED with count 2.             *)
C21_Witness ==
    /\ cb.state = STATE_CLOSED
    /\ cb.counter = fail_max - 1
    /\ probeFails = 3
    /\ pc[1] = "done"
    /\ req[1].op = "health_check"
    /\ last[1] \in TransportCodes

(* A step in which thread t's POST /reset-breaker runs.                    *)
ResetStep(t) == pc[t] = "idle" /\ pc'[t] = "done" /\ req'[t].op = "reset_breaker"

(* C22: POST /reset-breaker, from whatever state the breaker is in when    *)
(* close() gets the lock, leaves it CLOSED with failure count 0 and        *)
(* answers 200, without a backend call or a change of the store; a CLOSED  *)
(* breaker stays CLOSED until a guarded call returns, and a guarded call   *)
(* that enters a CLOSED breaker is passed to the backend.                  *)
C22_ResetCloses ==
    [][\A t \in Threads :
          /\ ResetStep(t) =>
                /\ cb'.state = STATE_CLOSED
                /\ cb'.counter = 0
                /\ result'[t] = Return(200)
                /\ nCalls' = nCalls
                /\ store' = store
                /\ cbLock' = cbLock
          /\ (cb.state = STATE_CLOSED /\ cb'.state # STATE_CLOSED) =>
                \E u \in Threads : GuardedReturn(u)
          /\ (GuardedEnter(t) /\ cb.state = STATE_CLOSED) =>
                /\ pc'[t] = "ci_backend"
                /\ nCalls'[t] = nCalls[t] + 1
      ]_vars

(* The breaker was opened and, before its timeout had elapsed, reset by    *)
(* one thread; the other thread's guarded call is now at the backend.      *)
C22_Witness ==
    \E t, u \in Threads :
        /\ t # u
        /\ pc[t] = "done" /\ req[t].op = "reset_breaker" /\ result[t] = Return(200)
        /\ cb.state = STATE_CLOSED /\ cb.counter = 0
        /\ cb.opened_at # None /\ now < cb.opened_at + reset_timeout
        /\ pc[u] = "ci_backend" /\ nCalls[u] = 1

====
